---- MODULE Spec2Model ----
(***************************************************************************)
(* Ticket lifecycle and settlement of the train-ticket resale marketplace  *)
(* (src/app.py, src/models.py).  The five relations of the store are      *)
(* sequences whose index is the row's primary key; the payment gateway is  *)
(* a sequence of checkout sessions; every HTTP handler is one action,      *)
(* except view_purchased_ticket, whose reads and commits are separate      *)
(* steps of a request so that two requests can interleave.                 *)
(***************************************************************************)
EXTENDS Integers, Sequences, FiniteSets, TLC

VARIABLES tickets, sold_tickets, messages, seller_wallets,
          wallet_transactions, stripe_sessions, user_type, req, today, sweep_log

vars == <<tickets, sold_tickets, messages, seller_wallets,
          wallet_transactions, stripe_sessions, user_type, req, today, sweep_log>>

store == <<tickets, sold_tickets, messages, seller_wallets, wallet_transactions>>

(* ------------------------------ bounds -------------------------------- *)
MaxTickets == 2
MaxSessions == 2
MaxMessages == 3
MaxDay == 3

(* ------------------------- values and inputs -------------------------- *)
\* NULL of a string column / of an integer column
NoneStr == "None"
NoneId == 0

Digits == {"0", "1", "2", "3", "4", "5", "6", "7", "8", "9"}

PNR_A == <<"1", "2", "3", "4", "5", "6", "7", "8", "9", "0">>
PNR_B == <<"9", "8", "7", "6", "5", "4", "3", "2", "1", "0">>
PNR_SHORT == <<"1", "2", "3">>
PNR_ALPHA == <<"1", "2", "3", "4", "5", "6", "7", "8", "9", "x">>
PNR_EMPTY == <<>>
\* ten digits and a line feed
PNR_NEWLINE == PNR_A \o <<"\n">>

\* float(request.form['price']): the texts the model submits and their values,
\* counted in hundredths of a rupee
PriceValue ==
    ("500" :> 50000) @@ ("300" :> 30000) @@ ("128.20" :> 12820)
        @@ ("0" :> 0) @@ ("-5" :> (0 - 500))

\* datetime.strptime(s, '%Y-%m-%d').date(): day numbers of the texts that parse
DateValue == ("2026-01-01" :> 1) @@ ("2026-01-02" :> 2)

\* filename.rsplit('.', 1)[1].lower() of the file names the model uploads;
\* a name without a dot has no entry
FileExt == ("t.png" :> "png") @@ ("t.PDF" :> "pdf") @@ ("t.exe" :> "exe")

ALLOWED_EXTENSIONS == {"pdf", "jpg", "jpeg", "png", "svg", "gif"}

\* The texts of the control messages
RELEASE_REQUEST_TEXT == "[SYSTEM] Buyer has requested the ticket to be released."
RELEASE_CONFIRM_TEXT == "[SYSTEM] Seller has confirmed the ticket transfer."

\* str.strip() of the texts the model submits
Strip ==
    ("Ticket" :> "Ticket") @@ ("hi" :> "hi") @@ (" hi " :> "hi") @@ ("  " :> "")
        @@ ("" :> "") @@ (RELEASE_REQUEST_TEXT :> RELEASE_REQUEST_TEXT)

Emails == {"a@x.com", "b@x.com"}

Workers == {"w1", "w2"}

BaseForm ==
    [title |-> "Ticket", price |-> "500", file |-> "t.png",
     from_location |-> "Delhi", to_location |-> "Mumbai",
     travel_date |-> "2026-01-01", train_number |-> "12951",
     passenger_name |-> "Asha", pnr_number |-> PNR_A]

\* A second booking: another PNR, price, route, date and train
OtherForm ==
    [BaseForm EXCEPT !.pnr_number = PNR_B, !.price = "300", !.file = "t.PDF",
                     !.from_location = "Pune", !.to_location = "Nagpur",
                     !.travel_date = "2026-01-02", !.train_number = "12127"]

ValidForms == {BaseForm, OtherForm}

InvalidForms ==
    { [BaseForm EXCEPT !.title = "  "],
      [BaseForm EXCEPT !.price = ""],
      [BaseForm EXCEPT !.price = "0"],
      [BaseForm EXCEPT !.price = "-5"],
      [BaseForm EXCEPT !.price = "abc"],
      [BaseForm EXCEPT !.file = ""],
      [BaseForm EXCEPT !.file = "t.exe"],
      [BaseForm EXCEPT !.file = "noext"],
      [BaseForm EXCEPT !.from_location = ""],
      [BaseForm EXCEPT !.to_location = ""],
      [BaseForm EXCEPT !.travel_date = ""],
      [BaseForm EXCEPT !.travel_date = "01/01/2026"],
      [BaseForm EXCEPT !.train_number = ""],
      [BaseForm EXCEPT !.passenger_name = ""],
      [BaseForm EXCEPT !.pnr_number = PNR_EMPTY],
      [BaseForm EXCEPT !.pnr_number = PNR_SHORT],
      [BaseForm EXCEPT !.pnr_number = PNR_ALPHA] }

\* Two more forms that upload_ticket accepts: a price with paise, and a PNR
\* field that ends in a line feed
FractionForm == [BaseForm EXCEPT !.price = "128.20"]
NewlineForm == [OtherForm EXCEPT !.pnr_number = PNR_NEWLINE]

Forms == ValidForms \cup InvalidForms \cup {FractionForm, NewlineForm}

(* ------------------------------ helpers ------------------------------- *)
Ids(s) == 1..Len(s)

\* SoldTicket.query.filter_by(pnr_number=pnr): the matching rows
SoldWithPnr(pnr) == { i \in Ids(sold_tickets) : sold_tickets[i].pnr_number = pnr }

\* SoldTicket.pnr_number is unique=True: an INSERT of a second row with the
\* same PNR raises IntegrityError when the session is flushed
UniqueViolation_NoConstraint(pnr) == FALSE
UniqueViolation(pnr) == SoldWithPnr(pnr) # {}

\* re.match(r'^\d{10}$', pnr_number): ten digits from the start, then the end
\* of the string; without re.MULTILINE, $ also matches just before a line feed
\* that ends the string
PnrFormatOk(pnr) ==
    /\ Len(pnr) \in {10, 11}
    /\ \A i \in 1..10 : pnr[i] \in Digits
    /\ Len(pnr) = 11 => pnr[11] = "\n"

\* validate_pnr: "" when valid, else the error message
validate_pnr_FormatOnly(pnr) ==
    IF ~PnrFormatOk(pnr) THEN "PNR must be exactly 10 digits" ELSE ""
validate_pnr(pnr) ==
    IF ~PnrFormatOk(pnr) THEN "PNR must be exactly 10 digits"
    ELSE IF SoldWithPnr(pnr) # {} THEN "This ticket has already been sold and cannot be resold"
    ELSE ""

allowed_file(filename) ==
    filename \in DOMAIN FileExt /\ FileExt[filename] \in ALLOWED_EXTENSIONS

\* ticket.seller_id or 1
SellerKey(seller_id) == IF seller_id = NoneId THEN 1 ELSE seller_id

\* SellerWallet.query.filter_by(seller_id=...): the matching rows
WalletsOf(seller_id) ==
    { w \in Ids(seller_wallets) : seller_wallets[w].seller_id = SellerKey(seller_id) }

\* commission = original_price * 0.10, in hundredths of a rupee
Commission(price) == price \div 10

\* seller_amount = original_price
SellerAmount_WithCommission(price) == price + Commission(price)
SellerAmount(price) == price

\* price_with_commission = int(ticket.price * 110), in paise.  The product is
\* an IEEE-754 double and int() truncates it: it is exact for the whole-rupee
\* prices, and 128.2 * 110 is 14101.999999999998
PriceWithCommission(price) ==
    IF price = 12820 THEN 14101 ELSE (price * 110) \div 100

IdleReq ==
    [pc |-> "idle", session_id |-> 0, ticket_id |-> 0, wallet_id |-> 0,
     wallet_created |-> FALSE, balance |-> 0, buyer_email |-> NoneStr,
     payment_id |-> 0, outcome |-> "none"]

\* The request r has returned with the response outcome; of its locals the
\* ticket it was about and the wallet row it had used stay on record
Response(r, outcome) ==
    [IdleReq EXCEPT !.pc = "done", !.outcome = outcome, !.ticket_id = r.ticket_id,
                    !.wallet_id = r.wallet_id, !.wallet_created = r.wallet_created,
                    !.balance = r.balance]

Init ==
    /\ tickets = <<>>
    /\ sold_tickets = <<>>
    /\ messages = <<>>
    /\ seller_wallets = <<>>
    /\ wallet_transactions = <<>>
    /\ stripe_sessions = <<>>
    /\ user_type = "buyer"
    /\ req = [w \in Workers |-> IdleReq]
    /\ today = 1
    /\ sweep_log = "none"

(* --------------------------- Ticket Registry -------------------------- *)
\* The message upload_ticket flashes for a form, "" when the form is accepted
UploadError(form) ==
    IF Strip[form.title] = "" THEN "Please provide a ticket title"
    ELSE IF form.price = "" THEN "Please provide a ticket price"
    ELSE IF form.price \notin DOMAIN PriceValue THEN "Price must be a valid number"
    ELSE IF PriceValue[form.price] <= 0 THEN "Price must be greater than zero"
    ELSE IF form.file = "" THEN "No image selected for uploading"
    ELSE IF form.from_location = "" THEN "Please provide origin location"
    ELSE IF form.to_location = "" THEN "Please provide destination location"
    ELSE IF form.travel_date = "" THEN "Please provide travel date"
    ELSE IF form.train_number = "" THEN "Please provide train number"
    ELSE IF form.passenger_name = "" THEN "Please provide passenger name"
    ELSE IF form.pnr_number = <<>> THEN "Please provide the PNR number"
    ELSE IF validate_pnr(form.pnr_number) # "" THEN validate_pnr(form.pnr_number)
    ELSE IF form.travel_date \notin DOMAIN DateValue THEN "Invalid travel date format"
    ELSE IF ~allowed_file(form.file) THEN "Allowed image types are: png, jpg, jpeg, gif"
    ELSE ""

NewTicket(form) ==
    [title |-> form.title, price |-> PriceValue[form.price], filename |-> form.file,
     pnr_number |-> form.pnr_number, from_location |-> form.from_location,
     to_location |-> form.to_location, travel_date |-> DateValue[form.travel_date],
     train_number |-> form.train_number, passenger_name |-> form.passenger_name,
     seller_id |-> NoneId, is_expired |-> FALSE, stripe_checkout_id |-> NoneId,
     payment_status |-> NoneStr, buyer_email |-> NoneStr]

\* The forms the settlement specifications submit: the bookings, and two
\* rejected ones
SettlementForms ==
    ValidForms \cup { [BaseForm EXCEPT !.pnr_number = PNR_SHORT],
                      [BaseForm EXCEPT !.price = "0"] }

\* POST /upload.  A rejected form flashes its error and redirects: nothing is
\* persisted
upload_ticket(forms) ==
    \E form \in forms :
        IF UploadError(form) = ""
        THEN /\ Len(tickets) < MaxTickets
             /\ tickets' = Append(tickets, NewTicket(form))
             /\ UNCHANGED <<sold_tickets, messages, seller_wallets, wallet_transactions,
                            stripe_sessions, user_type, req, today, sweep_log>>
        ELSE UNCHANGED vars

(* ---------------------------- Expiry Sweeper -------------------------- *)
\* Ticket.query.filter(Ticket.travel_date < today, Ticket.is_expired == False):
\* the ids of the selected rows of tks
expired_tickets_Inclusive(tks, day) ==
    { i \in Ids(tks) : tks[i].travel_date <= day /\ ~tks[i].is_expired }
expired_tickets_IgnoresFlag(tks, day) ==
    { i \in Ids(tks) : tks[i].travel_date < day }
expired_tickets(tks, day) ==
    { i \in Ids(tks) : tks[i].travel_date < day /\ ~tks[i].is_expired }

\* for ticket in expired_tickets: ticket.is_expired = True
MarkExpired(tks, day) ==
    [i \in Ids(tks) |-> IF i \in expired_tickets(tks, day)
                        THEN [tks[i] EXCEPT !.is_expired = TRUE]
                        ELSE tks[i]]

\* db.session.rollback() after the failed commit: the rows as they are stored,
\* none of the pending is_expired writes kept
SweepRollback_Partial(tks, day) ==
    [i \in Ids(tks) |-> IF /\ i \in expired_tickets(tks, day)
                           /\ \A j \in expired_tickets(tks, day) : i <= j
                        THEN [tks[i] EXCEPT !.is_expired = TRUE]
                        ELSE tks[i]]
SweepRollback(tks, day) == tks

\* check_expired_tickets(): with nothing selected there is no commit and no log
\* record; else the commit keeps the batch and logs "Marked ... as expired", or
\* it raises, the rollback drops the whole batch and the error is logged.
\* sweep_log is the level of the sweeper's last log record.
check_expired_tickets ==
    IF expired_tickets(tickets, today) = {}
    THEN UNCHANGED <<tickets, sweep_log>>
    ELSE \/ /\ tickets' = MarkExpired(tickets, today)
            /\ sweep_log' = "info"
         \/ /\ tickets' = SweepRollback(tickets, today)
            /\ sweep_log' = "error"

\* GET /: the sweep, then the listing of the tickets that are not expired
\* (a read)
index ==
    /\ check_expired_tickets
    /\ UNCHANGED <<sold_tickets, messages, seller_wallets, wallet_transactions,
                   stripe_sessions, user_type, req, today>>

\* date.today() moves on to the next day
NextDay ==
    /\ today < MaxDay
    /\ today' = today + 1
    /\ UNCHANGED <<store, stripe_sessions, user_type, req, sweep_log>>

(* --------------------------- Payment gateway -------------------------- *)
\* stripe.checkout.Session.create(...): the session the gateway stores
NewSession(t, ticket_id, buyer_email) ==
    [ticket_id |-> ticket_id, pnr_number |-> t.pnr_number, buyer_email |-> buyer_email,
     unit_amount |-> PriceWithCommission(t.price), payment_status |-> "unpaid"]

\* checkout_session.payment_intent of a session: always set once it is paid.
\* For an unpaid session it is set or null, depending on the gateway's API
\* version and on whether the buyer has attempted a payment that failed.
PaymentIntents(session_id) ==
    IF stripe_sessions[session_id].payment_status = "paid"
    THEN {session_id}
    ELSE {NoneId, session_id}

\* The buyer pays on the gateway's page
GatewayPay ==
    \E sid \in Ids(stripe_sessions) :
        /\ stripe_sessions[sid].payment_status = "unpaid"
        /\ stripe_sessions' = [stripe_sessions EXCEPT ![sid].payment_status = "paid"]
        /\ UNCHANGED <<store, user_type, req, today, sweep_log>>

(* -------------------------- Settlement Engine ------------------------- *)
\* payment_page: TRUE when the page is rendered, FALSE when it redirects
\* because the ticket is missing or its PNR is already sold
PaymentPageShown(ticket_id) ==
    /\ ticket_id \in Ids(tickets)
    /\ SoldWithPnr(tickets[ticket_id].pnr_number) = {}

\* GET /payment/<id>: renders or redirects, writes nothing
payment_page ==
    \E ticket_id \in 1..(Len(tickets) + 1) :
        /\ PaymentPageShown(ticket_id) \in BOOLEAN
        /\ UNCHANGED vars

\* POST /process_payment/<id>
process_payment(buyers) ==
    \E ticket_id \in 1..(Len(tickets) + 1), email \in buyers \cup {""} :
        IF ticket_id \notin Ids(tickets) \/ email = ""
        THEN UNCHANGED vars
        ELSE \/ \* stripe.checkout.Session.create raises: the request ends
                \* without a commit and the pending buyer_email is discarded
                UNCHANGED vars
             \/ /\ Len(stripe_sessions) < MaxSessions
                /\ stripe_sessions' =
                       Append(stripe_sessions, NewSession(tickets[ticket_id], ticket_id, email))
                /\ tickets' = [tickets EXCEPT
                                   ![ticket_id].buyer_email = email,
                                   ![ticket_id].stripe_checkout_id = Len(stripe_sessions) + 1,
                                   ![ticket_id].payment_status = "pending"]
                /\ UNCHANGED <<sold_tickets, messages, seller_wallets,
                               wallet_transactions, user_type, req, today, sweep_log>>

\* GET /payment/cancel/<id>
payment_cancel_for_Failed(ticket_id) ==
    IF ticket_id \notin Ids(tickets)
    THEN UNCHANGED vars
    ELSE /\ tickets' = [tickets EXCEPT ![ticket_id].payment_status = "failed"]
         /\ UNCHANGED <<sold_tickets, messages, seller_wallets, wallet_transactions,
                        stripe_sessions, user_type, req, today, sweep_log>>
payment_cancel_for(ticket_id) ==
    IF ticket_id \notin Ids(tickets)
    THEN UNCHANGED vars
    ELSE /\ tickets' = [tickets EXCEPT ![ticket_id].payment_status = "cancelled"]
         /\ UNCHANGED <<sold_tickets, messages, seller_wallets, wallet_transactions,
                        stripe_sessions, user_type, req, today, sweep_log>>

payment_cancel == \E ticket_id \in 1..(Len(tickets) + 1) : payment_cancel_for(ticket_id)

(* view_purchased_ticket, one request per worker.  pc:                     *)
(*   idle/done -> (Begin) -> wallet | commit | done                        *)
(*   wallet -> (CreateWallet) -> reload -> (Reload) -> commit              *)
(*   commit -> (Commit) -> done                                            *)

\* A request is served by the first worker that is not serving one
Busy(w) == req[w].pc \notin {"idle", "done"}
FirstFree(w) == w = "w1" \/ Busy("w1")

\* Lines 467-487, up to the wallet query: retrieve the session and its payment
\* intent, load the ticket, look the seller's wallet up
FinalizeBegin(w) ==
    /\ req[w].pc \in {"idle", "done"}
    /\ FirstFree(w)
    /\ \E session_id \in 1..(Len(stripe_sessions) + 1) :
        IF session_id \notin Ids(stripe_sessions)
        THEN \* Session.retrieve raises
             req' = [req EXCEPT ![w] = Response(IdleReq, "verify_error")]
        ELSE \E payment_intent \in PaymentIntents(session_id) :
             LET ticket_id == stripe_sessions[session_id].ticket_id
                 r == [IdleReq EXCEPT !.session_id = session_id,
                                      !.ticket_id = ticket_id,
                                      !.payment_id = payment_intent]
             IN
             IF payment_intent = NoneId
             THEN \* PaymentIntent.retrieve(None) raises
                  req' = [req EXCEPT ![w] = Response(r, "verify_error")]
             ELSE IF ticket_id \notin Ids(tickets)
             THEN req' = [req EXCEPT ![w] = Response(r, "not_found")]
             ELSE IF WalletsOf(tickets[ticket_id].seller_id) = {}
             THEN req' = [req EXCEPT ![w] = [r EXCEPT !.pc = "wallet"]]
             ELSE \E wallet_id \in WalletsOf(tickets[ticket_id].seller_id) :
                    req' = [req EXCEPT ![w] =
                              [r EXCEPT !.pc = "commit",
                                        !.wallet_id = wallet_id,
                                        !.balance = seller_wallets[wallet_id].balance,
                                        !.buyer_email = tickets[ticket_id].buyer_email]]
    /\ UNCHANGED <<store, stripe_sessions, user_type, today, sweep_log>>

\* Lines 485-487: no wallet was found; insert one and commit
FinalizeCreateWallet(w) ==
    /\ req[w].pc = "wallet"
    /\ seller_wallets' = Append(seller_wallets,
           [seller_id |-> SellerKey(tickets[req[w].ticket_id].seller_id), balance |-> 0])
    /\ req' = [req EXCEPT ![w].pc = "reload", ![w].wallet_id = Len(seller_wallets) + 1,
                          ![w].wallet_created = TRUE]
    /\ UNCHANGED <<tickets, sold_tickets, messages, wallet_transactions,
                   stripe_sessions, user_type, today, sweep_log>>

\* Lines 490-508 after that commit: the commit expired the loaded rows, so the
\* ticket and the new wallet are read again
FinalizeReload(w) ==
    /\ req[w].pc = "reload"
    /\ req' = [req EXCEPT ![w].pc = "commit",
                          ![w].balance = seller_wallets[req[w].wallet_id].balance,
                          ![w].buyer_email = tickets[req[w].ticket_id].buyer_email]
    /\ UNCHANGED <<store, stripe_sessions, user_type, today, sweep_log>>

\* seller_wallet.balance += seller_amount, as written back by the flush
CreditedBalance_Overwrite(balance, amount) == amount
CreditedBalance(balance, amount) == balance + amount

NewSoldTicket_SwappedRoute(t, r) ==
    [pnr_number |-> t.pnr_number, from_location |-> t.to_location,
     to_location |-> t.from_location, travel_date |-> t.travel_date,
     train_number |-> t.train_number, buyer_email |-> r.buyer_email,
     payment_id |-> r.payment_id, seller_id |-> t.seller_id,
     from_ticket_id |-> r.ticket_id]
NewSoldTicket(t, r) ==
    [pnr_number |-> t.pnr_number, from_location |-> t.from_location,
     to_location |-> t.to_location, travel_date |-> t.travel_date,
     train_number |-> t.train_number, buyer_email |-> r.buyer_email,
     payment_id |-> r.payment_id, seller_id |-> t.seller_id,
     from_ticket_id |-> r.ticket_id]

NewWalletTransaction(t, r) ==
    [wallet_id |-> r.wallet_id, amount |-> SellerAmount(t.price),
     transaction_type |-> "credit", ticket_id |-> r.ticket_id,
     payment_id |-> r.payment_id]

\* Lines 519-523: the flush writes the sold ticket, the wallet's new balance,
\* the wallet transaction and the ticket's status, and the commit keeps them
CommitSettlement(w) ==
    LET r == req[w]
        t == tickets[r.ticket_id]
    IN
    /\ sold_tickets' = Append(sold_tickets, NewSoldTicket(t, r))
    /\ seller_wallets' = [seller_wallets EXCEPT ![r.wallet_id].balance =
                              CreditedBalance(r.balance, SellerAmount(t.price))]
    /\ wallet_transactions' = Append(wallet_transactions, NewWalletTransaction(t, r))
    /\ tickets' = [tickets EXCEPT ![r.ticket_id].payment_status = "completed"]
    /\ UNCHANGED messages

\* Lines 531-532: db.session.rollback() undoes every write of the transaction
RollbackSettlement_KeepsCredit(w) ==
    LET r == req[w]
        t == tickets[r.ticket_id]
    IN
    /\ seller_wallets' = [seller_wallets EXCEPT ![r.wallet_id].balance =
                              CreditedBalance(r.balance, SellerAmount(t.price))]
    /\ wallet_transactions' = Append(wallet_transactions, NewWalletTransaction(t, r))
    /\ UNCHANGED <<tickets, sold_tickets, messages>>
RollbackSettlement(w) == UNCHANGED store

\* Lines 489-535: build the rows and commit them in one transaction; a unique
\* violation on sold_tickets.pnr_number raises and the handler rolls back
FinalizeCommit(w) ==
    /\ req[w].pc = "commit"
    /\ IF UniqueViolation(tickets[req[w].ticket_id].pnr_number)
       THEN /\ RollbackSettlement(w)
            /\ req' = [req EXCEPT ![w] = Response(req[w], "IntegrityError")]
       ELSE /\ CommitSettlement(w)
            /\ req' = [req EXCEPT ![w] = Response(req[w], "ticket_download")]
    /\ UNCHANGED <<stripe_sessions, user_type, today, sweep_log>>

(* ---------------------------- Negotiation Log ------------------------- *)
\* f'[SYSTEM] Ticket has been successfully purchased by {ticket.buyer_email}'
PurchaseText(buyer_email) ==
    CASE buyer_email = "a@x.com" -> "[SYSTEM] Ticket has been successfully purchased by a@x.com"
      [] buyer_email = "b@x.com" -> "[SYSTEM] Ticket has been successfully purchased by b@x.com"
      [] OTHER -> "[SYSTEM] Ticket has been successfully purchased by None"

\* created_at = default datetime.utcnow: the clock read when the row is
\* inserted, later than the created_at of every row inserted before
utcnow == Len(messages) + 1

NewMessage(ticket_id, sender_type, message_text, is_ticket_shared) ==
    [ticket_id |-> ticket_id, sender_type |-> sender_type,
     message_text |-> message_text, is_ticket_shared |-> is_ticket_shared,
     created_at |-> utcnow]

\* Message.query.filter_by(ticket_id=...): the ids of the ticket's rows
MessagesOf(ticket_id) == { i \in Ids(messages) : messages[i].ticket_id = ticket_id }

RECURSIVE OrderByCreatedAt_Desc(_)
OrderByCreatedAt_Desc(rows) ==
    IF rows = {} THEN <<>>
    ELSE LET first == CHOOSE i \in rows :
                 \A j \in rows : messages[i].created_at >= messages[j].created_at
         IN <<messages[first]>> \o OrderByCreatedAt_Desc(rows \ {first})

RECURSIVE OrderByCreatedAt(_)
\* .order_by(Message.created_at.asc()).all(): the rows, earliest first
OrderByCreatedAt(rows) ==
    IF rows = {} THEN <<>>
    ELSE LET first == CHOOSE i \in rows :
                 \A j \in rows : messages[i].created_at <= messages[j].created_at
         IN <<messages[first]>> \o OrderByCreatedAt(rows \ {first})

\* The messages the chat page shows for the ticket
history(ticket_id) == OrderByCreatedAt(MessagesOf(ticket_id))

\* request_release's query: a buyer message of this ticket with the request text
HasReleaseRequest(ticket_id) ==
    \E i \in Ids(messages) :
        /\ messages[i].ticket_id = ticket_id
        /\ messages[i].sender_type = "buyer"
        /\ messages[i].message_text = RELEASE_REQUEST_TEXT

\* release_ticket's query: a seller message of this ticket with the shared flag
HasSellerShare_Always(ticket_id) == TRUE
HasSellerShare(ticket_id) ==
    \E i \in Ids(messages) :
        /\ messages[i].ticket_id = ticket_id
        /\ messages[i].sender_type = "seller"
        /\ messages[i].is_ticket_shared

\* GET /switch_user/<user_type>
switch_user ==
    \E u \in {"buyer", "seller", "admin"} :
        /\ user_type' = IF u \in {"buyer", "seller"} THEN u ELSE user_type
        /\ UNCHANGED <<store, stripe_sessions, req, today, sweep_log>>

\* GET /chat/<id>: renders the history (or redirects when the ticket is
\* missing), writes nothing
chat ==
    \E ticket_id \in 1..(Len(tickets) + 1) :
        /\ (ticket_id \in Ids(tickets) => Len(history(ticket_id)) <= Len(messages))
        /\ UNCHANGED vars

\* 'share_ticket' in request.form and user_type == 'seller'
is_ticket_shared_AnyRole(share_ticket, role) == share_ticket
is_ticket_shared(share_ticket, role) == share_ticket /\ role = "seller"

\* The message texts the model submits
SentTexts == {"hi", " hi ", "  ", "", RELEASE_REQUEST_TEXT}

\* POST /send_message/<id>
send_message_for(ticket_id, text, share_ticket) ==
    IF ticket_id \notin Ids(tickets) \/ Strip[text] = ""
    THEN UNCHANGED vars
    ELSE /\ Len(messages) < MaxMessages
         /\ messages' = Append(messages,
                NewMessage(ticket_id, user_type, Strip[text],
                           is_ticket_shared(share_ticket, user_type)))
         /\ UNCHANGED <<tickets, sold_tickets, seller_wallets, wallet_transactions,
                        stripe_sessions, user_type, req, today, sweep_log>>

send_message ==
    \E ticket_id \in 1..(Len(tickets) + 1), text \in SentTexts, share_ticket \in BOOLEAN :
        send_message_for(ticket_id, text, share_ticket)

\* GET /request_release/<id>
request_release_for(ticket_id) ==
    IF ticket_id \notin Ids(tickets) \/ HasReleaseRequest(ticket_id)
    THEN UNCHANGED vars
    ELSE /\ Len(messages) < MaxMessages
         /\ messages' = Append(messages,
                NewMessage(ticket_id, "buyer", RELEASE_REQUEST_TEXT, FALSE))
         /\ UNCHANGED <<tickets, sold_tickets, seller_wallets, wallet_transactions,
                        stripe_sessions, user_type, req, today, sweep_log>>

request_release == \E ticket_id \in 1..(Len(tickets) + 1) : request_release_for(ticket_id)

\* GET /release_ticket/<id>
release_ticket_for(ticket_id) ==
    IF ticket_id \notin Ids(tickets) \/ ~HasSellerShare(ticket_id)
    THEN UNCHANGED vars
    ELSE /\ Len(messages) < MaxMessages
         /\ messages' = Append(messages,
                NewMessage(ticket_id, "seller", RELEASE_CONFIRM_TEXT, FALSE))
         /\ UNCHANGED <<tickets, sold_tickets, seller_wallets, wallet_transactions,
                        stripe_sessions, user_type, req, today, sweep_log>>

release_ticket == \E ticket_id \in 1..(Len(tickets) + 1) : release_ticket_for(ticket_id)

\* GET /payment/success?session_id=...
payment_success ==
    \E session_id \in 1..(Len(stripe_sessions) + 1) :
        IF \/ session_id \notin Ids(stripe_sessions)
           \/ stripe_sessions[session_id].ticket_id \notin Ids(tickets)
        THEN UNCHANGED vars
        ELSE LET ticket_id == stripe_sessions[session_id].ticket_id IN
             /\ Len(messages) < MaxMessages
             /\ messages' = Append(messages,
                    NewMessage(ticket_id, "system",
                               PurchaseText(tickets[ticket_id].buyer_email), TRUE))
             /\ UNCHANGED <<tickets, sold_tickets, seller_wallets, wallet_transactions,
                            stripe_sessions, user_type, req, today, sweep_log>>

(* ---------------------------- specifications -------------------------- *)
\* Settlement with interleaved requests: a view_purchased_ticket request may
\* be between its reads and its commit while other handlers run.  The chat
\* handlers are left to FlowSpec: they write only messages and user_type,
\* which no handler of this specification reads.  One buyer pays here; two
\* buyers compete in SeqSpec and FlowSpec.
Next ==
    \/ upload_ticket(SettlementForms)
    \/ payment_page
    \/ process_payment({"a@x.com"})
    \/ payment_cancel
    \/ GatewayPay
    \/ \E w \in Workers : FinalizeBegin(w)
    \/ \E w \in Workers : FinalizeCreateWallet(w)
    \/ \E w \in Workers : FinalizeReload(w)
    \/ \E w \in Workers : FinalizeCommit(w)

Spec == Init /\ [][Next]_vars

\* No view_purchased_ticket request is between its first read and its commit
Quiescent == \A w \in Workers : ~Busy(w)

\* Settlement with the operations executed one at a time: a request runs to
\* completion before the next handler starts
SeqNext ==
    \/ Quiescent /\ upload_ticket(SettlementForms)
    \/ Quiescent /\ payment_page
    \/ Quiescent /\ process_payment(Emails)
    \/ Quiescent /\ payment_cancel
    \/ Quiescent /\ GatewayPay
    \/ Quiescent /\ FinalizeBegin("w1")
    \/ FinalizeCreateWallet("w1")
    \/ FinalizeReload("w1")
    \/ FinalizeCommit("w1")

SeqSpec == Init /\ [][SeqNext]_vars

\* The whole lifecycle of one listing, chat included, one operation at a time
FlowTickets == 1
FlowSessions == 1

FlowNext ==
    \/ Quiescent /\ Len(tickets) < FlowTickets /\ upload_ticket(SettlementForms)
    \/ Quiescent /\ switch_user
    \/ Quiescent /\ request_release
    \/ Quiescent /\ release_ticket
    \/ Quiescent /\ send_message
    \/ Quiescent /\ chat
    \/ Quiescent /\ payment_page
    \/ Quiescent /\ Len(stripe_sessions) < FlowSessions /\ process_payment(Emails)
    \/ Quiescent /\ payment_cancel
    \/ Quiescent /\ GatewayPay
    \/ Quiescent /\ payment_success
    \/ Quiescent /\ FinalizeBegin("w1")
    \/ FinalizeCreateWallet("w1")
    \/ FinalizeReload("w1")
    \/ FinalizeCommit("w1")

FlowSpec == Init /\ [][FlowNext]_vars

\* The negotiation logs of two listings, one operation at a time; one payment
\* session, so that payment_success has a session to return from
ChatNext ==
    \/ upload_ticket(ValidForms)
    \/ switch_user
    \/ chat
    \/ request_release
    \/ release_ticket
    \/ send_message
    \/ Len(stripe_sessions) < FlowSessions /\ process_payment({"a@x.com"})
    \/ payment_success

ChatSpec == Init /\ [][ChatNext]_vars

\* Registry, sweeper and settlement, one operation at a time, with every form
\* the model knows and with the days passing
RegistryNext ==
    \/ Quiescent /\ upload_ticket(Forms)
    \/ Quiescent /\ NextDay
    \/ Quiescent /\ index
    \/ Quiescent /\ Len(stripe_sessions) < FlowSessions /\ process_payment(Emails)
    \/ Quiescent /\ payment_cancel
    \/ Quiescent /\ GatewayPay
    \/ Quiescent /\ FinalizeBegin("w1")
    \/ FinalizeCreateWallet("w1")
    \/ FinalizeReload("w1")
    \/ FinalizeCommit("w1")

RegistrySpec == Init /\ [][RegistryNext]_vars

(* ------------------------------- claims ------------------------------ *)
TicketPnr(ticket_id) == tickets[ticket_id].pnr_number

\* The wallet transactions that credit a sale of the PNR
CreditsOfPnr(pnr) ==
    { k \in Ids(wallet_transactions) : TicketPnr(wallet_transactions[k].ticket_id) = pnr }

\* Worker w has answered a request about an existing ticket
Answered(w, outcome) ==
    /\ req[w].pc = "done"
    /\ req[w].outcome = outcome
    /\ req[w].ticket_id \in Ids(tickets)

\* C1: in every reachable state no two SoldTicket records have the same PNR,
\* also when several listed tickets carry the same PNR.
C1_UniqueSoldPnr ==
    \A i, j \in Ids(sold_tickets) :
        i # j => sold_tickets[i].pnr_number # sold_tickets[j].pnr_number

\* C1 witness: a PNR sold through one ticket, and a finalize of another ticket
\* carrying the same PNR has been answered with the unique violation.
C1_Witness ==
    \E w \in Workers, i \in Ids(sold_tickets) :
        /\ Answered(w, "IntegrityError")
        /\ sold_tickets[i].pnr_number = TicketPnr(req[w].ticket_id)
        /\ sold_tickets[i].from_ticket_id # req[w].ticket_id

\* C2: a finalize that reaches its commit when a SoldTicket for the ticket's
\* PNR already exists fails with the unique violation, adds no SoldTicket and
\* no WalletTransaction and leaves every wallet and ticket as it was; so no
\* PNR is ever credited twice.
C2_SecondFinalizeRejected ==
    [][\A w \in Workers :
          (/\ req[w].pc = "commit"
           /\ req'[w].pc = "done"
           /\ SoldWithPnr(TicketPnr(req[w].ticket_id)) # {})
          => /\ req'[w].outcome = "IntegrityError"
             /\ sold_tickets' = sold_tickets
             /\ wallet_transactions' = wallet_transactions
             /\ seller_wallets' = seller_wallets
             /\ tickets' = tickets
             /\ Cardinality(CreditsOfPnr(TicketPnr(req[w].ticket_id))) <= 1]_vars

\* C2 witness: the ticket that was sold has been finalized a second time and
\* the second call was answered with the unique violation.
C2_Witness ==
    \E w \in Workers, i \in Ids(sold_tickets) :
        /\ Answered(w, "IntegrityError")
        /\ sold_tickets[i].from_ticket_id = req[w].ticket_id
        /\ Len(wallet_transactions) = 1

\* The commit step of worker w's request
CommitStep(w) == req[w].pc = "commit" /\ req'[w].pc = "done"

\* C3: with interleaved requests, a commit for a PNR that has no SoldTicket
\* yet inserts one and credits the wallet once; a commit for a PNR that has
\* one (the other request won the race) fails with the unique violation and
\* changes nothing in the store; after either, the PNR has exactly one
\* SoldTicket and exactly one credit.
C3_RaceCreditsOnce ==
    [][\A w \in Workers :
          CommitStep(w) =>
            LET pnr == TicketPnr(req[w].ticket_id) IN
            /\ SoldWithPnr(pnr) = {} =>
                  /\ req'[w].outcome = "ticket_download"
                  /\ Len(sold_tickets') = Len(sold_tickets) + 1
                  /\ Len(wallet_transactions') = Len(wallet_transactions) + 1
            /\ SoldWithPnr(pnr) # {} =>
                  /\ req'[w].outcome = "IntegrityError"
                  /\ store' = store
            /\ Cardinality(SoldWithPnr(pnr))' = 1
            /\ Cardinality(CreditsOfPnr(pnr))' = 1]_vars

\* C3 witness: two requests for the same PNR have both been answered, one with
\* the download and one with the unique violation; both had read the same
\* balance of the same wallet, so the loser read before the winner committed;
\* the wallet holds that balance plus one price.
C3_Witness ==
    \E w, v \in Workers :
        /\ w # v
        /\ Answered(w, "ticket_download")
        /\ Answered(v, "IntegrityError")
        /\ TicketPnr(req[w].ticket_id) = TicketPnr(req[v].ticket_id)
        /\ req[w].wallet_id = req[v].wallet_id
        /\ req[w].balance = req[v].balance
        /\ seller_wallets[req[w].wallet_id].balance =
               req[w].balance + tickets[req[w].ticket_id].price
        /\ Cardinality(CreditsOfPnr(TicketPnr(req[w].ticket_id))) = 1

\* C4 (as claimed): a finalize that failed has persisted nothing.  Its only
\* write before the settlement commit is the wallet row of lines 485-487, so
\* the claim is that no failed request has created a wallet.
C4_FailedFinalizeWritesNothing ==
    \A w \in Workers :
        (req[w].pc = "done" /\ req[w].outcome # "ticket_download")
            => ~req[w].wallet_created

RECURSIVE SoldPriceSum(_, _)
\* The listed prices of the tickets sold for the seller identity, added up
SoldPriceSum(rows, seller) ==
    IF rows = <<>> THEN 0
    ELSE (IF SellerKey(Head(rows).seller_id) = seller
          THEN tickets[Head(rows).from_ticket_id].price ELSE 0)
         + SoldPriceSum(Tail(rows), seller)

\* C5: with the operations executed one at a time, every wallet's balance is
\* the sum of the listed prices of its seller's sold tickets, the commission
\* excluded.
C5_BalanceIsSumOfListedPrices ==
    \A k \in Ids(seller_wallets) :
        seller_wallets[k].balance = SoldPriceSum(sold_tickets, seller_wallets[k].seller_id)

\* C5 witness: two finalizations of the seller's tickets, of different prices,
\* have succeeded.
C5_Witness ==
    /\ Len(sold_tickets) = 2
    /\ tickets[sold_tickets[1].from_ticket_id].price
           # tickets[sold_tickets[2].from_ticket_id].price
    /\ \E k \in Ids(seller_wallets) : seller_wallets[k].balance = 80000

RECURSIVE AmountSum(_, _)
\* The signed amounts of the wallet's transactions, added up
AmountSum(txs, wallet_id) ==
    IF txs = <<>> THEN 0
    ELSE (IF Head(txs).wallet_id = wallet_id THEN Head(txs).amount ELSE 0)
         + AmountSum(Tail(txs), wallet_id)

\* C6: with the operations executed one at a time, for every wallet the sum
\* of the amounts of its transactions equals its balance.
C6_LedgerConsistent ==
    \A k \in Ids(seller_wallets) :
        AmountSum(wallet_transactions, k) = seller_wallets[k].balance

\* C6 witness: a wallet with two transactions, after a finalization that
\* failed.
C6_Witness ==
    /\ Len(wallet_transactions) = 2
    /\ wallet_transactions[1].wallet_id = wallet_transactions[2].wallet_id
    /\ \E w \in Workers : Answered(w, "IntegrityError")

\* C7: a successful finalize of ticket t appends exactly one SoldTicket with
\* t's PNR, route, date and train and t's id as back-reference, appends
\* exactly one credit WalletTransaction carrying the same payment reference,
\* and sets t.payment_status to completed, all in the same step.
C7_SuccessfulFinalizeWrites ==
    [][\A w \in Workers :
          (CommitStep(w) /\ req'[w].outcome = "ticket_download") =>
            LET id == req[w].ticket_id
                t == tickets[id]
                sold == sold_tickets'[Len(sold_tickets')]
                credit == wallet_transactions'[Len(wallet_transactions')]
            IN
            /\ sold_tickets' = Append(sold_tickets, sold)
            /\ sold.pnr_number = t.pnr_number
            /\ sold.from_location = t.from_location
            /\ sold.to_location = t.to_location
            /\ sold.travel_date = t.travel_date
            /\ sold.train_number = t.train_number
            /\ sold.from_ticket_id = id
            /\ wallet_transactions' = Append(wallet_transactions, credit)
            /\ credit.transaction_type = "credit"
            /\ credit.amount = t.price
            /\ credit.payment_id = sold.payment_id
            /\ credit.payment_id = req[w].payment_id
            /\ tickets'[id].payment_status = "completed"]_vars

\* C7 witness: the second booking has been finalized successfully.
C7_Witness ==
    \E w \in Workers, i \in Ids(sold_tickets) :
        /\ Answered(w, "ticket_download")
        /\ sold_tickets[i].from_ticket_id = req[w].ticket_id
        /\ sold_tickets[i].pnr_number = PNR_B
        /\ tickets[req[w].ticket_id].payment_status = "completed"

\* C8 (as claimed): every SoldTicket and every wallet credit carries the
\* reference of a payment session that the gateway reports as paid.
C8_SoldOnlyIfPaid ==
    /\ \A i \in Ids(sold_tickets) :
          stripe_sessions[sold_tickets[i].payment_id].payment_status = "paid"
    /\ \A k \in Ids(wallet_transactions) :
          stripe_sessions[wallet_transactions[k].payment_id].payment_status = "paid"

\* A seller release-confirmation message exists in the ticket's log
HasReleaseConfirmation(ticket_id) ==
    \E i \in Ids(messages) :
        /\ messages[i].ticket_id = ticket_id
        /\ messages[i].sender_type = "seller"
        /\ messages[i].message_text = RELEASE_CONFIRM_TEXT

\* C9 (as claimed): a ticket has a payment session, is pending or is sold only
\* if its log holds a seller release-confirmation (messages are never
\* deleted, so one that existed at initiate_payment still exists).
C9_PaymentOnlyAfterRelease ==
    \A t \in Ids(tickets) :
        (\/ tickets[t].payment_status \in {"pending", "completed"}
         \/ tickets[t].stripe_checkout_id # NoneId
         \/ \E i \in Ids(sold_tickets) : sold_tickets[i].from_ticket_id = t)
            => HasReleaseConfirmation(t)

\* The payment sessions created for the ticket
SessionsOf(ticket_id) ==
    { i \in Ids(stripe_sessions) : stripe_sessions[i].ticket_id = ticket_id }

\* C10 (as claimed): while a SoldTicket exists for a ticket's PNR, no step
\* creates a payment session for the ticket, changes its buyer email or its
\* payment-session reference, or sets it to pending.
C10_NoPaymentForSoldPnr ==
    [][\A t \in Ids(tickets) :
          SoldWithPnr(TicketPnr(t)) # {} =>
            /\ SessionsOf(t)' = SessionsOf(t)
            /\ tickets'[t].buyer_email = tickets[t].buyer_email
            /\ tickets'[t].stripe_checkout_id = tickets[t].stripe_checkout_id
            /\ (tickets'[t].payment_status = "pending"
                    => tickets[t].payment_status = "pending")]_vars

\* The seller messages of the ticket that carry the shared flag
SellerShares(t) ==
    { i \in Ids(messages) : /\ messages[i].ticket_id = t
                            /\ messages[i].sender_type = "seller"
                            /\ messages[i].is_ticket_shared }

\* The release-confirmation messages of the ticket
Confirmations(t) ==
    { i \in Ids(messages) : /\ messages[i].ticket_id = t
                            /\ messages[i].sender_type = "seller"
                            /\ messages[i].message_text = RELEASE_CONFIRM_TEXT }

\* The buyer release-request messages of the ticket
Requests(t) ==
    { i \in Ids(messages) : /\ messages[i].ticket_id = t
                            /\ messages[i].sender_type = "buyer"
                            /\ messages[i].message_text = RELEASE_REQUEST_TEXT }

\* C11: a confirm_release (release_ticket) on a ticket whose log holds no
\* seller message with the shared flag leaves the log as it is; on a ticket
\* whose log holds one it appends exactly one message, a seller
\* release-confirmation of that ticket without the shared flag.
C11_ConfirmReleaseNeedsShare ==
    [][\A t \in Ids(tickets) :
          release_ticket_for(t) =>
            IF SellerShares(t) = {}
            THEN messages' = messages
            ELSE LET new == messages'[Len(messages')] IN
                 /\ messages' = Append(messages, new)
                 /\ new.ticket_id = t
                 /\ new.sender_type = "seller"
                 /\ new.message_text = RELEASE_CONFIRM_TEXT
                 /\ ~new.is_ticket_shared
                 /\ Cardinality(Confirmations(t))' = Cardinality(Confirmations(t)) + 1]_vars

\* C11 witness: the log of a ticket holds a seller share-confirmation and,
\* after it, a release-confirmation.
C11_Witness ==
    \E t \in Ids(tickets) : \E i \in SellerShares(t), j \in Confirmations(t) : i < j

\* C12 (as claimed): a request_release on a ticket whose log holds no seller
\* share-confirmation inserts nothing.
C12_RequestNeedsShare ==
    [][\A t \in Ids(tickets) :
          (request_release_for(t) /\ SellerShares(t) = {}) => messages' = messages]_vars

\* The buyer release-requests of the ticket that no later seller share or
\* release-confirmation has answered
PendingRequests(t) ==
    { i \in Requests(t) :
        ~\E j \in MessagesOf(t) :
            /\ messages[j].created_at > messages[i].created_at
            /\ messages[j].sender_type = "seller"
            /\ \/ messages[j].is_ticket_shared
               \/ messages[j].message_text = RELEASE_CONFIRM_TEXT }

\* C13 (as claimed): after every step each ticket's log holds at most one
\* pending buyer release-request, and a request_release issued while one is
\* pending leaves the log unchanged.
C13_AtMostOnePendingRequest ==
    [][\A t \in Ids(tickets) :
          /\ Cardinality(PendingRequests(t))' <= 1
          /\ (request_release_for(t) /\ PendingRequests(t) # {}) => messages' = messages]_vars

\* C14 (as claimed): the amount of every payment session is the listed price
\* of its ticket plus 10%: 110 paise for each rupee, so 100 times the amount
\* (in paise) is 110 times the price (in hundredths of a rupee).
C14_AmountIsPricePlusTenPercent ==
    \A sid \in Ids(stripe_sessions) :
        stripe_sessions[sid].unit_amount * 100
            = tickets[stripe_sessions[sid].ticket_id].price * 110

\* A process_payment for ticket t that the gateway accepts: t becomes pending
\* with the reference of a session that did not exist before
RetryAccepted(t) ==
    /\ process_payment(Emails)
    /\ SessionsOf(t)' # SessionsOf(t)
    /\ tickets'[t].payment_status = "pending"
    /\ tickets'[t].stripe_checkout_id \notin Ids(stripe_sessions)
    /\ tickets'[t].stripe_checkout_id \in SessionsOf(t)'

\* The ticket is unsold, its last payment was cancelled or is still pending,
\* and the gateway can still open a session
Retryable(t) ==
    /\ Quiescent
    /\ SoldWithPnr(TicketPnr(t)) = {}
    /\ tickets[t].payment_status \in {"cancelled", "pending"}
    /\ Len(stripe_sessions) < MaxSessions

SweepCommitted ==
    /\ Len(tickets') = Len(tickets)
    /\ \E t \in Ids(tickets) : ~tickets[t].is_expired /\ tickets'[t].is_expired

\* C16: a ticket is expired only when its travel date is before today; the
\* commit of a sweep sets is_expired for every ticket whose travel date is
\* before today and leaves every other ticket as it was; no step resets
\* is_expired or removes an expired ticket.
C16_ExpiryMonotonic ==
    [][/\ \A t \in Ids(tickets') :
             tickets'[t].is_expired => tickets'[t].travel_date < today'
       /\ SweepCommitted =>
             \A t \in Ids(tickets) :
                 tickets'[t] = IF tickets[t].travel_date < today
                               THEN [tickets[t] EXCEPT !.is_expired = TRUE]
                               ELSE tickets[t]
       /\ \A t \in Ids(tickets) :
             tickets[t].is_expired => (t \in Ids(tickets') /\ tickets'[t].is_expired)]_vars

\* C16 witness: of two tickets the one that travelled yesterday is expired
\* and the one that travels today is not, although a sweep has run today.
C16_Witness ==
    /\ Len(tickets) = 2
    /\ \E t, u \in Ids(tickets) :
          /\ tickets[t].is_expired
          /\ tickets[t].travel_date < today
          /\ ~tickets[u].is_expired
          /\ tickets[u].travel_date = today

\* C17: after the commit of a sweep, a second sweep on the same day selects
\* no ticket and would write back the tickets exactly as they are.
C17_SweepIdempotent ==
    [][SweepCommitted =>
          /\ today' = today
          /\ expired_tickets(tickets', today') = {}
          /\ MarkExpired(tickets', today') = tickets']_vars

\* C17 witness: two tickets with different travel dates have both been swept
\* and nothing is left to select.
C17_Witness ==
    /\ Len(tickets) = 2
    /\ tickets[1].travel_date # tickets[2].travel_date
    /\ \A t \in Ids(tickets) : tickets[t].is_expired
    /\ expired_tickets(tickets, today) = {}

\* The PNR is exactly ten digits
TenDigits(pnr) == Len(pnr) = 10 /\ \A i \in 1..10 : pnr[i] \in Digits

\* The form has a price that is no number or not positive, a PNR that is not
\* ten digits, or an empty route, date, train, passenger or PNR field
MustBeRejected(form) ==
    \/ form.price \notin DOMAIN PriceValue
    \/ PriceValue[form.price] <= 0
    \/ ~TenDigits(form.pnr_number)
    \/ "" \in {form.from_location, form.to_location, form.travel_date,
               form.train_number, form.passenger_name}

\* C18 (as claimed): an upload of a form with a price <= 0, a PNR that is not
\* exactly ten digits or a missing required field persists no ticket; every
\* ticket has a ten-digit PNR and a positive price, and a new ticket is not
\* expired and has no payment status.
C18_OnlyValidTicketsPersist ==
    [][/\ \A form \in Forms :
             (MustBeRejected(form) /\ upload_ticket({form})) => tickets' = tickets
       /\ \A t \in Ids(tickets') :
             TenDigits(tickets'[t].pnr_number) /\ tickets'[t].price > 0
       /\ Len(tickets') > Len(tickets) =>
             /\ ~tickets'[Len(tickets')].is_expired
             /\ tickets'[Len(tickets')].payment_status = NoneStr]_vars

\* C19: no step changes, reorders or removes a stored message; a read (chat)
\* writes nothing; for every ticket a step either leaves its history as it
\* was or appends the one new message, which is of that ticket, as the last
\* element.
C19_HistoryAppendOnly ==
    [][/\ SubSeq(messages', 1, Len(messages)) = messages
       /\ chat => messages' = messages
       /\ \A t \in Ids(tickets) :
             \/ history(t)' = history(t)
             \/ /\ Len(messages') = Len(messages) + 1
                /\ messages'[Len(messages')].ticket_id = t
                /\ history(t)' = Append(history(t), messages'[Len(messages')])]_vars

\* C19 witness: the messages of two tickets interleave in the table; the
\* history of the first ticket is its two messages in the order of posting,
\* the later one a purchase-confirmation.
C19_Witness ==
    /\ Len(messages) = 3
    /\ messages[1].ticket_id = 1
    /\ messages[2].ticket_id = 2
    /\ messages[3].ticket_id = 1
    /\ messages[3].sender_type = "system"
    /\ history(1) = <<messages[1], messages[3]>>
    /\ history(2) = <<messages[2]>>

\* C20: no buyer message carries the shared flag; a send_message with the
\* share flag in the buyer role stores a buyer message without the flag and
\* adds no seller share; the precondition of release_ticket (a seller share
\* of the ticket) becomes true only by a step taken in the seller role.
C20_ShareFlagOnlyForSeller ==
    [][/\ \A i \in Ids(messages') :
             messages'[i].sender_type = "buyer" => ~messages'[i].is_ticket_shared
       /\ \A t \in Ids(tickets) :
             /\ (SellerShares(t) = {} /\ SellerShares(t)' # {}) => user_type = "seller"
             /\ \A text \in SentTexts :
                   (/\ user_type = "buyer"
                    /\ send_message_for(t, text, TRUE)
                    /\ messages' # messages)
                   => /\ messages'[Len(messages')].sender_type = "buyer"
                      /\ ~messages'[Len(messages')].is_ticket_shared
                      /\ SellerShares(t)' = SellerShares(t)]_vars

\* C20 witness: the buyer has posted twice on a ticket, the log holds no
\* seller share, and release_ticket still inserts nothing.
C20_Witness ==
    \E t \in Ids(tickets) :
        /\ user_type = "buyer"
        /\ Cardinality({ i \in MessagesOf(t) : messages[i].sender_type = "buyer" }) = 2
        /\ SellerShares(t) = {}
        /\ Len(messages) < MaxMessages
        /\ ~ENABLED (release_ticket_for(t) /\ messages' # messages)

\* C21 (as claimed): after every step no two wallets have the same seller
\* identity and no balance is negative, and a balance changes only in the
\* commit step of a finalize that succeeds.
C21_OneWalletPerSeller ==
    [][/\ \A j, k \in Ids(seller_wallets') :
             j # k => seller_wallets'[j].seller_id # seller_wallets'[k].seller_id
       /\ \A k \in Ids(seller_wallets') : seller_wallets'[k].balance >= 0
       /\ \A k \in Ids(seller_wallets) :
             seller_wallets'[k].balance # seller_wallets[k].balance =>
                 \E w \in Workers :
                     CommitStep(w) /\ req'[w].outcome = "ticket_download"]_vars

\* C22 (as claimed): a ticket that a SoldTicket references has payment_status
\* completed.
C22_SoldTicketStaysCompleted ==
    \A i \in Ids(sold_tickets) :
        tickets[sold_tickets[i].from_ticket_id].payment_status = "completed"

\* C23 (as claimed): when two finalize requests for different PNRs of one
\* seller have both succeeded on the same wallet, the wallet's balance is the
\* sum of its transactions.
C23_NoLostUpdate ==
    \A w, v \in Workers :
        (/\ w # v
         /\ Answered(w, "ticket_download")
         /\ Answered(v, "ticket_download")
         /\ TicketPnr(req[w].ticket_id) # TicketPnr(req[v].ticket_id)
         /\ req[w].wallet_id = req[v].wallet_id)
        => seller_wallets[req[w].wallet_id].balance
               = AmountSum(wallet_transactions, req[w].wallet_id)

\* C24 (as claimed): the buyer email of a SoldTicket is the buyer email given
\* to the process_payment call that created the session it was finalized
\* with.
C24_SoldToSessionBuyer ==
    \A i \in Ids(sold_tickets) :
        sold_tickets[i].buyer_email = stripe_sessions[sold_tickets[i].payment_id].buyer_email

\* C25: once a SoldTicket with a PNR exists, a step never adds a Ticket with
\* that PNR (a create with it is rejected and the table of tickets stays as it
\* was), and a finalize of an earlier ticket with that PNR adds no SoldTicket
\* and leaves the ticket's payment_status alone.
C25_SoldPnrNeverListedAgain ==
    [][/\ \A form \in SettlementForms :
             (SoldWithPnr(form.pnr_number) # {} /\ upload_ticket({form}))
                 => tickets' = tickets
       /\ \A i \in Ids(tickets') \ Ids(tickets) :
             SoldWithPnr(tickets'[i].pnr_number) = {}
       /\ \A w \in Workers :
             (CommitStep(w) /\ SoldWithPnr(TicketPnr(req[w].ticket_id)) # {})
                 => /\ sold_tickets' = sold_tickets
                    /\ tickets' = tickets
                    /\ req'[w].outcome = "IntegrityError"]_vars

\* PNR_A is sold and the table has room: the create with PNR_A is refused
\* while the create with the unsold PNR_B is accepted
C25_Witness ==
    /\ Quiescent
    /\ SoldWithPnr(PNR_A) # {}
    /\ SoldWithPnr(PNR_B) = {}
    /\ Len(tickets) < MaxTickets
    /\ ~ENABLED (upload_ticket({BaseForm}) /\ tickets' # tickets)
    /\ ENABLED (upload_ticket({OtherForm}) /\ tickets' # tickets)

\* C26 (as claimed): when every buyer release-request of a ticket has been
\* followed by a seller share or release-confirmation (none is pending), a
\* request_release for the ticket is accepted: it appends a new buyer
\* release-request message to the log.
C26_RequestAcceptedAfterShare ==
    \A t \in Ids(tickets) :
        (/\ Requests(t) # {}
         /\ PendingRequests(t) = {}
         /\ Len(messages) < MaxMessages)
        => ENABLED (/\ request_release_for(t)
                    /\ messages' = Append(messages,
                           NewMessage(t, "buyer", RELEASE_REQUEST_TEXT, FALSE)))

\* The step is a sweep whose commit failed: the sweeper logs the error
SweepFailed == index /\ expired_tickets(tickets, today) # {} /\ sweep_log' = "error"

\* C27: a sweep whose commit fails changes no ticket; a step that marks a
\* ticket expired is a committed sweep that marks the whole selection and logs
\* no error; a selected ticket stays selected, also when today advances, until
\* a committed sweep marks it; and whenever the last sweep has failed, the
\* selection is not empty and a sweep that commits marks all of it.
C27_FailedSweepRollsBack ==
    /\ [][/\ SweepFailed => tickets' = tickets
          /\ SweepCommitted => (sweep_log' = "info" /\ tickets' = MarkExpired(tickets, today))
          /\ \A t \in expired_tickets(tickets, today) :
                \/ t \in expired_tickets(tickets', today')
                \/ SweepCommitted /\ tickets'[t].is_expired]_vars
    /\ [](sweep_log = "error" =>
            /\ expired_tickets(tickets, today) # {}
            /\ ENABLED (/\ index
                        /\ sweep_log' = "info"
                        /\ \A t \in expired_tickets(tickets, today) : tickets'[t].is_expired))

\* C27 witness: the last sweep failed on a later day than the bookings' travel
\* dates; both tickets, with different travel dates, are unmarked and selected
C27_Witness ==
    /\ sweep_log = "error"
    /\ Len(tickets) = 2
    /\ tickets[1].travel_date # tickets[2].travel_date
    /\ expired_tickets(tickets, today) = {1, 2}
    /\ \A t \in Ids(tickets) : ~tickets[t].is_expired

====
